---- MODULE Spec2Model ----
(***************************************************************************)
(* dshw: query dispatch (Command / Query) and template substitution        *)
(* (Application::format_string) of src/src/app.rs, cli.rs, cmd.rs and      *)
(* query.rs.                                                               *)
(*                                                                         *)
(* Text is modelled at the level of lexemes.  A String of the program is a *)
(* sequence of lexemes; a lexeme is the percent sign "%", the line feed    *)
(* "\n", or a run of characters holding neither (a field token such as     *)
(* "usage", or other literal text such as "x").  The empty String is <<>>. *)
(***************************************************************************)
EXTENDS Integers, Sequences, FiniteSets, TLC

VARIABLES cli, host, app, pc, cnt, runs, sleeps, stdout, last

vars == <<cli, host, app, pc, cnt, runs, sleeps, stdout, last>>

-----------------------------------------------------------------------------
(* Bounds of the model.                                                    *)

\* A template is the concatenation of at most MaxParts parts (see Parts).
MaxParts == 3
\* A field list on the command line holds at most MaxQueries queries.
MaxQueries == 2
\* exec_cmd is run at most MaxRuns times in one behaviour (run_times = 0
\* loops without end in the program).
MaxRuns == 3

-----------------------------------------------------------------------------
(* Categories and their fields: cli.rs CliCommand, query.rs *Query.         *)

FieldCategories == {"os", "cpu", "memory", "swap", "drive", "sensor", "network"}
ListCategories == {"list-sensors", "list-cpus", "list-networks"}
NamedCategories == {"cpu", "drive", "sensor", "network"}
CliCommand == FieldCategories \cup ListCategories

\* The value names clap derives (kebab case) from the variants of each enum.
OsQuery == {"boot-time", "load-average1m", "load-average5m", "load-average15m",
            "name", "kernel-version", "version", "long-version", "release-id",
            "host-name", "physical-core-count", "total-cpu-usage", "cpu-arch"}
CpuQuery == {"usage", "frequency", "brand", "vendor-id"}
MemoryQuery == {"usage", "total", "available", "free"}
SwapQuery == {"usage", "total", "available"}
DriveQuery == {"usage", "fs", "is-removable", "kind", "mount-point", "total",
               "available"}
SensorQuery == {"critical-temp", "max-temp", "temperature"}
NetworkQuery == {"mac-address", "total-incoming-errors", "total-outcoming-errors",
                 "total-received-data", "total-transmitted-data",
                 "total-received-packets", "total-transmitted-packets"}

Fields(cat) ==
  CASE cat = "os" -> OsQuery
    [] cat = "cpu" -> CpuQuery
    [] cat = "memory" -> MemoryQuery
    [] cat = "swap" -> SwapQuery
    [] cat = "drive" -> DriveQuery
    [] cat = "sensor" -> SensorQuery
    [] cat = "network" -> NetworkQuery
    [] OTHER -> {}

\* enum Query: Query::None, or a field of one category.
QueryNone == [cat |-> "none", field |-> "none"]
Query(cat, field) == [cat |-> cat, field |-> field]

\* ASCII case folding of a lexeme (eq_ignore_ascii_case of clap's
\* ValueEnum::from_str with ignore_case), on the lexemes the model writes
\* with capital letters.
ToLower(s) ==
  CASE s \in {"USAGE", "Usage"} -> "usage"
    [] s \in {"Total-CPU-Usage", "TOTAL-CPU-USAGE"} -> "total-cpu-usage"
    [] s \in {"TEMPERATURE", "Temperature"} -> "temperature"
    [] s \in {"MAC-AddREss", "MAC-ADDRESS"} -> "mac-address"
    [] s = "NAME" -> "name"
    [] s = "Brand" -> "brand"
    [] s = "TOTAL" -> "total"
    [] s = "Mount-Point" -> "mount-point"
    [] s = "Critical-Temp" -> "critical-temp"
    [] s = "Total-Received-Data" -> "total-received-data"
    [] OTHER -> s

-----------------------------------------------------------------------------
(* Results.                                                                *)

NoErr == [kind |-> "none", cat |-> "", text |-> <<>>]
Err(kind, cat, text) == [kind |-> kind, cat |-> cat, text |-> text]

\* A parser that takes every String for the first field of the category.
QueryFromStrFirstField(cat, s) ==
  IF cat \in ListCategories
    THEN [ok |-> FALSE, q |-> QueryNone, err |-> Err("NoArguments", cat, s)]
    ELSE [ok |-> TRUE, q |-> Query(cat, CHOOSE f \in Fields(cat) : TRUE), err |-> NoErr]

\* A parser that compares the value names of the enum in exact case.
QueryFromStrExactCase(cat, s) ==
  IF cat \in ListCategories
    THEN [ok |-> FALSE, q |-> QueryNone, err |-> Err("NoArguments", cat, s)]
    ELSE IF Len(s) = 1 /\ s[1] \in Fields(cat)
      THEN [ok |-> TRUE, q |-> Query(cat, s[1]), err |-> NoErr]
      ELSE [ok |-> FALSE, q |-> QueryNone, err |-> Err("InvalidQuery", cat, s)]

\* Query::from_str(cmd, s): s is the String between two percent signs.
\* A String is a value name of the enum iff it is that one token, whatever
\* its case.
QueryFromStr(cat, s) ==
  IF cat \in ListCategories
    THEN [ok |-> FALSE, q |-> QueryNone, err |-> Err("NoArguments", cat, s)]
    ELSE IF Len(s) = 1 /\ ToLower(s[1]) \in Fields(cat)
      THEN [ok |-> TRUE, q |-> Query(cat, ToLower(s[1])), err |-> NoErr]
      ELSE [ok |-> FALSE, q |-> QueryNone, err |-> Err("InvalidQuery", cat, s)]

-----------------------------------------------------------------------------
(* Numbers wider than 31 bits, units.rs, and the f64 formatting it uses.   *)

\* A natural number as its decimal digits in groups of four, the least
\* significant group first and no leading zero group: <<>> is zero.
RECURSIVE Natural(_)
Natural(n) == IF n = 0 THEN <<>> ELSE <<n % 10000>> \o Natural(n \div 10000)

\* F(a) and F(a, b) with the arguments evaluated first.
Of(F(_), a) == CHOOSE r \in { F(x) : x \in {a} } : TRUE
Of2(F(_, _), a, b) == CHOOSE r \in { F(x, y) : x \in {a}, y \in {b} } : TRUE

Least(S) == CHOOSE s \in S : \A t \in S : s <= t
Greatest(S) == CHOOSE s \in S : \A t \in S : t <= s

\* a without its leading zero groups
Top(a) ==
  CHOOSE n \in 0..Len(a) : (n = 0 \/ a[n] # 0) /\ \A j \in (n + 1)..Len(a) : a[j] = 0
Leading(a) == SubSeq(a, 1, Top(a))
Canonical(a) == Of(Leading, a)

Group4(a, i) == IF i <= Len(a) THEN a[i] ELSE 0

\* Whether the groups below i carry into group i: a group overflows and
\* every group between it and i is full.
CarryInto(a, b, i) ==
  \E j \in 1..(i - 1) :
    /\ Group4(a, j) + Group4(b, j) >= 10000
    /\ \A k \in (j + 1)..(i - 1) : Group4(a, k) + Group4(b, k) = 9999
AddGroup(a, b, i) ==
  (Group4(a, i) + Group4(b, i) + (IF CarryInto(a, b, i) THEN 1 ELSE 0)) % 10000
Longest(a, b) == IF Len(a) < Len(b) THEN Len(b) ELSE Len(a)
AddGroups(a, b) == Leading([i \in 1..(Longest(a, b) + 1) |-> AddGroup(a, b, i)])
Add(a, b) == Of2(AddGroups, a, b)

\* Whether the groups below i borrow from group i.
BorrowFrom(a, b, i) ==
  \E j \in 1..(i - 1) :
    /\ a[j] < Group4(b, j)
    /\ \A k \in (j + 1)..(i - 1) : a[k] = Group4(b, k)
SubGroup(a, b, i) ==
  (a[i] + 10000 - Group4(b, i) - (IF BorrowFrom(a, b, i) THEN 1 ELSE 0)) % 10000
SubGroups(a, b) == Leading([i \in 1..Len(a) |-> SubGroup(a, b, i)])
\* a - b for a >= b
Sub(a, b) == Of2(SubGroups, a, b)

LessGroups(a, b) ==
  IF Len(a) # Len(b) THEN Len(a) < Len(b)
  ELSE \E i \in 1..Len(a) : a[i] < b[i] /\ \A j \in (i + 1)..Len(a) : a[j] = b[j]
Less(a, b) == Of2(LessGroups, a, b)

\* a * k for a factor k below 2^17: the products of the groups, each split
\* into the groups of four digits it spans, added.
MulLow(a, k) == [i \in 1..Len(a) |-> (a[i] * k) % 10000]
MulMid(a, k) ==
  [i \in 1..(Len(a) + 1) |-> IF i = 1 THEN 0 ELSE ((a[i - 1] * k) \div 10000) % 10000]
MulHigh(a, k) ==
  [i \in 1..(Len(a) + 2) |-> IF i <= 2 THEN 0 ELSE (a[i - 2] * k) \div 100000000]
MulGroups(a, k) == Add(Add(MulLow(a, k), MulMid(a, k)), MulHigh(a, k))
Mul(a, k) == Of2(MulGroups, a, k)

RECURSIVE Pow(_, _)
Pow(k, n) == IF n = 0 THEN Natural(1) ELSE Mul(Pow(k, n - 1), k)

\* One decimal digit of a group of the quotient: the largest t with
\* b * (g + t * place) <= cur.
DecimalDigit(b, cur, g, place) ==
  CHOOSE t \in 0..9 :
    /\ ~Less(cur, Mul(b, g + t * place))
    /\ t = 9 \/ Less(cur, Mul(b, g + (t + 1) * place))
WithDigit(b, cur, g, place) == g + DecimalDigit(b, cur, g, place) * place
\* the largest d of 0..9999 with b * d <= cur, a decimal digit at a time
Digit(b, cur) ==
  CHOOSE d \in { WithDigit(b, cur, g1, 1) :
                   g1 \in { WithDigit(b, cur, g10, 10) :
                     g10 \in { WithDigit(b, cur, g100, 100) :
                       g100 \in { WithDigit(b, cur, 0, 1000) } } } } : TRUE

\* One group d of the quotient, and what is left of cur.
Remainder(b, cur, d) == [d |-> d, rem |-> Sub(cur, Mul(b, d))]
DivGroup(b, cur) == Remainder(b, cur, Digit(b, cur))
RECURSIVE DivFrom(_, _, _, _, _)
\* long division, a group of the quotient at a time
DivPut(a, b, i, q, g) == DivFrom(a, b, i - 1, <<g.d>> \o q, g.rem)
DivFrom(a, b, i, q, rem) ==
  IF i = 0 THEN [q |-> Canonical(q), r |-> rem]
  ELSE Of(LAMBDA g : DivPut(a, b, i, q, g), Of2(DivGroup, b, Canonical(<<a[i]>> \o rem)))
\* quotient and remainder of a by b > 0; the groups of a above the length
\* of b give no group of the quotient
DivGroups(a, b) ==
  IF Len(a) < Len(b) THEN [q |-> <<>>, r |-> a]
  ELSE DivFrom(a, b, Len(a) - Len(b) + 1, <<>>, SubSeq(a, Len(a) - Len(b) + 2, Len(a)))
DivMod(a, b) == Of2(DivGroups, a, b)

IsOdd(a) == a # <<>> /\ a[1] % 2 = 1

\* the integer nearest to a / b, a tie going to the even one
RoundHalfEven(d, b) ==
  IF Less(b, Add(d.r, d.r)) \/ (Add(d.r, d.r) = b /\ IsOdd(d.q))
    THEN Add(d.q, Natural(1)) ELSE d.q
Nearest(a, b) == IF b = Natural(1) THEN a ELSE Of2(RoundHalfEven, DivMod(a, b), b)

\* The decimal digits of a natural number, as one lexeme.
Pad4(n) ==
  IF n < 10 THEN "000" \o ToString(n)
  ELSE IF n < 100 THEN "00" \o ToString(n)
  ELSE IF n < 1000 THEN "0" \o ToString(n)
  ELSE ToString(n)
RECURSIVE DigitsFrom(_, _)
DigitsFrom(a, i) == IF i = 0 THEN "" ELSE Pad4(a[i]) \o DigitsFrom(a, i - 1)
Digits(a) ==
  IF a = <<>> THEN "0" ELSE ToString(a[Len(a)]) \o DigitsFrom(a, Len(a) - 1)

\* 2^53 = 9007199254740992 and 2^64 = 18446744073709551616
TwoTo53 == <<992, 5474, 1992, 9007>>
TwoTo64 == <<1616, 955, 737, 6744, 1844>>

\* 10^k
Ten(r) == CASE r = 0 -> 1 [] r = 1 -> 10 [] r = 2 -> 100 [] r = 3 -> 1000
TenTo(k) == [i \in 1..(k \div 4 + 1) |-> IF i <= k \div 4 THEN 0 ELSE Ten(k % 4)]

\* The multiple of u nearest to x, a tie going to the even multiple; r is
\* the remainder of x by u and odd tells whether the quotient is odd.
NearestMultiple(x, u, r, odd) ==
  IF Less(u, Add(r, r)) \/ (Add(r, r) = u /\ odd) THEN Add(Sub(x, r), u) ELSE Sub(x, r)

\* 2^s for s up to 16
TwoSmall(s) ==
  <<1, 2, 4, 8, 16, 32, 64, 128, 256, 512, 1024, 2048, 4096, 8192, 16384, 32768, 65536>>[s + 1]

\* x modulo m, a power of two up to 2^16: 10^16 is a multiple of m, so the
\* four lowest groups decide.
ModTwoTo(x, m) ==
  ( ((Group4(x, 1) + Group4(x, 2) * (10000 % m)) % m)
    + ((Group4(x, 3) * (100000000 % m)) % m)
    + ((Group4(x, 4) * (((1000000 % m) * (1000000 % m)) % m)) % m) ) % m

\* the least s with x < 2^53 * 2^s, for x below 2^68
Excess(x) ==
  CHOOSE s \in 0..15 :
    /\ Less(x, Mul(TwoTo53, TwoSmall(s)))
    /\ s = 0 \/ ~Less(x, Mul(TwoTo53, TwoSmall(s - 1)))

\* `x as f64` of an integer: x when it has at most 53 significant bits,
\* else the nearest multiple of the power of two that leaves 53, a tie
\* going to the even one.
AsF64To(x, m) ==
  NearestMultiple(x, Natural(m), Natural(ModTwoTo(x, m)), ModTwoTo(x, 2 * m) >= m)
AsF64Of(x) == Of2(AsF64To, x, TwoSmall(Excess(x)))
AsF64(x) == Of(AsF64Of, x)

\* x modulo 10^k, and whether the quotient is odd
LowDigits(x, k) ==
  Canonical([i \in 1..(k \div 4 + 1) |->
               IF i <= k \div 4 THEN Group4(x, i) ELSE Group4(x, i) % Ten(k % 4)])
DigitOdd(x, k) == (Group4(x, k \div 4 + 1) \div Ten(k % 4)) % 2 = 1
\* the nearest multiple of 10^k, and whether it is read back as x
Decimal(x, k) == NearestMultiple(x, TenTo(k), LowDigits(x, k), DigitOdd(x, k))
ReadBack(x, k) == AsF64(Decimal(x, k)) = x
\* the shortest digits that denote x: the nearest multiple of 10^k for the
\* largest k that is read back as x
Shortest(x) == Of2(Decimal, x, Greatest({ k \in 0..22 : ReadBack(x, k) }))

\* f64::to_string of a whole number: its digits when it has at most 53
\* significant bits; beyond, the shortest digits that are read back as the
\* same f64, and zeros.
F64ToString(x) == IF Less(x, TwoTo53) THEN Digits(x) ELSE Of(Digits, Shortest(x))

\* format!("{:.2}", v) of v = num / den: the hundredths nearest to v, a tie
\* going to the even one.
DropTwoDigits(h) ==
  Canonical([i \in 1..Len(h) |-> (h[i] \div 100) + (Group4(h, i + 1) % 100) * 100])
Hundredths(h) ==
  Digits(DropTwoDigits(h)) \o "."
    \o (IF (Group4(h, 1) % 100) < 10 THEN "0" ELSE "") \o ToString(Group4(h, 1) % 100)
Fixed2(v) == Of(Hundredths, Nearest(Mul(v.num, 100), v.den))

DataUnit == {"bits", "bytes", "kb", "kib", "mb", "mib", "gb", "gib", "tb", "tib"}

\* A table that takes the IEC units for the SI units.
FactorDecimalOnly(unit) ==
  CASE unit = "bits" -> [num |-> Natural(1), den |-> 8]
    [] unit = "bytes" -> [num |-> Natural(1), den |-> 1]
    [] unit \in {"kb", "kib"} -> [num |-> Natural(1000), den |-> 1]
    [] unit \in {"mb", "mib"} -> [num |-> Natural(1000000), den |-> 1]
    [] unit \in {"gb", "gib"} -> [num |-> Natural(1000000000), den |-> 1]
    [] unit \in {"tb", "tib"} -> [num |-> <<0, 0, 0, 1>>, den |-> 1]

\* The factor of from_bytes, num / den.  1_000_000_000_000 is written in
\* groups of four digits, the least significant first.
Factor(unit) ==
  CASE unit = "bits" -> [num |-> Natural(1), den |-> 8]
    [] unit = "bytes" -> [num |-> Natural(1), den |-> 1]
    [] unit = "kb" -> [num |-> Natural(1000), den |-> 1]
    [] unit = "kib" -> [num |-> Natural(1024), den |-> 1]
    [] unit = "mb" -> [num |-> Natural(1000000), den |-> 1]
    [] unit = "mib" -> [num |-> Mul(Natural(1024), 1024), den |-> 1]
    [] unit = "gb" -> [num |-> Natural(1000000000), den |-> 1]
    [] unit = "gib" -> [num |-> Mul(Mul(Natural(1024), 1024), 1024), den |-> 1]
    [] unit = "tb" -> [num |-> <<0, 0, 0, 1>>, den |-> 1]
    [] unit = "tib" -> [num |-> Mul(Mul(Mul(Natural(1024), 1024), 1024), 1024), den |-> 1]

RECURSIVE TimesTwoTo(_, _)
\* a * 2^s
TimesTwoTo(a, s) ==
  IF s < 16 THEN Mul(a, TwoSmall(s)) ELSE TimesTwoTo(Mul(a, 65536), s - 16)

\* n / d scaled by 2^s
Scaled(n, d, s) ==
  IF s >= 0 THEN [n |-> TimesTwoTo(n, s), d |-> d, s |-> s]
  ELSE [n |-> n, d |-> TimesTwoTo(d, 0 - s), s |-> s]
\* Whether n / d scaled by 2^s reaches 2^52; d52 is d * 2^52.
Reaches(n, s, d52) ==
  IF s >= 0 THEN ~Less(TimesTwoTo(n, s), d52) ELSE ~Less(n, TimesTwoTo(d52, 0 - s))
\* the least s of S at which n / d reaches 2^52
LeastScale(n, S, d52) == Least({ s \in S : Reaches(n, s, d52) })
LeastNear(n, s, d52) == LeastScale(n, (s - 15)..s, d52)
ScaleFrom(n, d52) ==
  LeastNear(n, LeastScale(n, {-16, 0, 16, 32, 48, 64, 80, 96, 112}, d52), d52)
\* n / d = (n' / d') / 2^s with 2^52 <= n' / d' < 2^53, for n > 0: the least
\* s that reaches 2^52, looked for sixteen at a time
Scale(n, d) == Scaled(n, d, Of2(ScaleFrom, n, TimesTwoTo(d, 52)))

\* the f64 nearest to n / d: 53 significant bits m, over or times a power of
\* two
Significand(m, s) ==
  IF s >= 0 THEN [num |-> m, den |-> TimesTwoTo(Natural(1), s)]
  ELSE [num |-> Mul(m, TwoSmall(0 - s)), den |-> Natural(1)]
Rounded(c) == Of2(Significand, Nearest(c.n, c.d), c.s)
F64Div(n, d) ==
  IF n = <<>> THEN [num |-> <<>>, den |-> Natural(1)] ELSE Of(Rounded, Scale(n, d))

\* value / factor of f64, for a whole value: exact when the factor is 1 or
\* 1/8, else the f64 nearest to the quotient.
Quotient(value, factor) ==
  IF factor.num = Natural(1)
    THEN [num |-> Mul(value, factor.den), den |-> Natural(1)]
    ELSE F64Div(value, factor.num)

\* DataValue::from_bytes
FromBytes(value, unit) == [value |-> Quotient(value, Factor(unit)), unit |-> unit]

\* DataValue::value_str
ValueStr(dv) ==
  IF dv.unit \in {"bits", "bytes"} THEN F64ToString(dv.value.num) ELSE Fixed2(dv.value)

-----------------------------------------------------------------------------
(* The provider (sysinfo) and the Application that reads it.               *)

\* Event of the effect log of one exec_cmd.
Ev(e, a) == [ev |-> e, arg |-> a]
Log(st, e, a) == [st EXCEPT !.trace = Append(@, Ev(e, a))]

\* Application::default: System::new() has loaded nothing; the three lists
\* are Lazy and not yet forced.
Unloaded == [loaded |-> FALSE, list |-> <<>>]
NewApplication ==
  [refreshes |-> 0, cpus |-> <<>>, memory |-> FALSE,
   drives |-> Unloaded, sensors |-> Unloaded, networks |-> Unloaded]

\* A provider whose usage needs three samples.
CpuUsageAfterThree(h, k) ==
  IF k < 3 THEN "0.00" ELSE h.usage[(k % Len(h.usage)) + 1]

\* CPU usage as the provider reports it after k calls of refresh_cpu: a
\* usage is a difference of two samples, so fewer than two give zero.
CpuUsageAt(h, k) ==
  IF k < 2 THEN "0.00" ELSE h.usage[(k % Len(h.usage)) + 1]

\* sys.refresh_cpu()
RefreshCpu(h, st) ==
  Log([st EXCEPT !.app.refreshes = @ + 1, !.app.cpus = h.cpus], "refresh_cpu", <<>>)

\* A refresh of one phase: no sleep and no second sample.
RefreshCpusOnce(h, st) == RefreshCpu(h, st)

\* Application::refresh_cpus: refresh, sleep MINIMUM_CPU_UPDATE_INTERVAL,
\* refresh.
RefreshCpus(h, st) ==
  RefreshCpu(h, Log(RefreshCpu(h, st), "sleep_min_cpu_interval", <<>>))

\* sys.refresh_memory()
RefreshMemory(st) == Log([st EXCEPT !.app.memory = TRUE], "refresh_memory", <<>>)

\* Forcing a Lazy list: the first use loads it from the provider, later uses
\* read what was loaded.
ForceDrives(h, st) ==
  IF st.app.drives.loaded THEN st
  ELSE Log([st EXCEPT !.app.drives = [loaded |-> TRUE, list |-> h.disks]],
           "load_drives", <<>>)

ForceSensors(h, st) ==
  IF st.app.sensors.loaded THEN st
  ELSE Log([st EXCEPT !.app.sensors = [loaded |-> TRUE, list |-> h.components]],
           "load_sensors", <<>>)

ForceNetworks(h, st) ==
  IF st.app.networks.loaded THEN st
  ELSE Log([st EXCEPT !.app.networks = [loaded |-> TRUE, list |-> h.networks]],
           "load_networks", <<>>)

\* iter().find(|e| e.name() == name): whether some entity has exactly the name.
Found(list, name) == \E i \in 1..Len(list) : list[i] = name

\* The fields whose provider value is an Option that the command renders
\* with unwrap_or_default().
OptionalFields(cat) ==
  CASE cat = "os" -> {"name", "kernel-version", "version", "long-version",
                      "host-name", "physical-core-count", "cpu-arch"}
    [] cat = "sensor" -> {"critical-temp"}
    [] OTHER -> {}

\* A rendering that takes every optional value to be there.
RenderAssumingSome(h, command, field, k) ==
  IF field \in {"total-cpu-usage"} \/ (command.cat = "cpu" /\ field = "usage")
    THEN <<CpuUsageAt(h, k)>>
    ELSE <<field \o "@" \o command.name>>

\* The rendering of one field of a bound command.  A value is a String.  The
\* CPU usages are the ones of the sample the command reads (k refreshes); an
\* optional field the provider has no value for renders to the empty String
\* (unwrap_or_default); the other fields render to a String that names the
\* field and the entity.
Render(h, command, field, k) ==
  IF field \in {"total-cpu-usage"} \/ (command.cat = "cpu" /\ field = "usage")
    THEN <<CpuUsageAt(h, k)>>
  ELSE IF field \in OptionalFields(command.cat) /\ ~h.optional
    THEN <<>>
    ELSE <<field \o "@" \o command.name>>


-----------------------------------------------------------------------------
(* Application::command_from_cli                                           *)

\* A bound command: its category, the entity it is bound to, and the CPU
\* sample (number of refreshes) a CpuCommand's borrowed &Cpu holds.
Bound(cat, name, at) == [cat |-> cat, name |-> name, at |-> at]
NoCommand == Bound("none", "", 0)

\* A wrapping into the variant of Os, whatever the category.
WrapQueriesAsOs(cat, queries) == [i \in 1..Len(queries) |-> Query("os", queries[i])]

\* queries.iter().map(|q| Query::X(q.clone())).collect()
WrapQueries(cat, queries) == [i \in 1..Len(queries) |-> Query(cat, queries[i])]

CmdOk(st, command, queries) ==
  [ok |-> TRUE, st |-> st, command |-> command, queries |-> queries, err |-> NoErr]
CmdErr(st, cat, name) ==
  [ok |-> FALSE, st |-> st, command |-> NoCommand, queries |-> <<>>,
   err |-> Err("NotFound", cat, <<name>>)]

\* A resolver that takes the first entity whatever the name asked for.
ResolveAny(st, list, cat, name, queries) ==
  IF Len(list) > 0
    THEN CmdOk(Log(st, "find", <<name>>), Bound(cat, list[1], st.app.refreshes),
               WrapQueries(cat, queries))
    ELSE CmdErr(Log(st, "find", <<name>>), cat, name)

\* .find(..).with_context(|| format!("<category> `{}` not found", name))?
Resolve(st, list, cat, name, queries) ==
  IF Found(list, name)
    THEN CmdOk(Log(st, "find", <<name>>), Bound(cat, name, st.app.refreshes),
               WrapQueries(cat, queries))
    ELSE CmdErr(Log(st, "find", <<name>>), cat, name)

\* self.sys.cpus().iter().find(|c| c.name() == name)
FindCpu(st, cmd) == Resolve(st, st.app.cpus, "cpu", cmd.name, cmd.queries)
\* DriveCommand::new(drive, data_unit): the command holds the unit its byte
\* counts are shown in.
WithDataUnit(c, unit) ==
  [c EXCEPT !.command = [cat |-> @.cat, name |-> @.name, at |-> @.at,
                         data_unit |-> unit]]
\* self.drives.list().iter().find(|d| d.name() == name.as_str())
FindDrive(st, cmd) ==
  WithDataUnit(Resolve(st, st.app.drives.list, "drive", cmd.name, cmd.queries),
               cmd.data_unit)
\* self.sensors.iter().find(|c| c.label() == name)
FindSensor(st, cmd) == Resolve(st, st.app.sensors.list, "sensor", cmd.name, cmd.queries)
\* self.networks.get(name)
FindNetwork(st, cmd) ==
  Resolve(st, st.app.networks.list, "network", cmd.name, cmd.queries)

CommandFromCli(h, st, cmd) ==
  CASE cmd.cat = "os" ->
         CmdOk(st, Bound("os", "os", 0), WrapQueries("os", cmd.queries))
    [] cmd.cat = "cpu" -> FindCpu(RefreshCpus(h, st), cmd)
    [] cmd.cat = "memory" ->
         CmdOk(RefreshMemory(st), Bound("memory", "memory", 0),
               WrapQueries("memory", cmd.queries))
    [] cmd.cat = "swap" ->
         CmdOk(RefreshMemory(st), Bound("swap", "swap", 0),
               WrapQueries("swap", cmd.queries))
    [] cmd.cat = "drive" -> FindDrive(ForceDrives(h, st), cmd)
    [] cmd.cat = "sensor" -> FindSensor(ForceSensors(h, st), cmd)
    [] cmd.cat = "network" -> FindNetwork(ForceNetworks(h, st), cmd)
    [] cmd.cat \in ListCategories ->
         CmdOk(st, Bound(cmd.cat, cmd.cat, 0), <<>>)

-----------------------------------------------------------------------------
(* Command::exec of cmd.rs: the Vec<String> one query yields.              *)

ExecOut(st, out) == [panic |-> FALSE, st |-> st, out |-> out]
ExecPanic(st) == [panic |-> TRUE, st |-> st, out |-> <<>>]

\* A loop that stops after the first entity.
NamesOfFirst(list) == [i \in 1..(IF Len(list) > 0 THEN 1 ELSE 0) |-> <<list[i]>>]

\* for e in list { output.push(e.name().to_string()) }
NamesOf(list) == [i \in 1..Len(list) |-> <<list[i]>>]

ListCpus(st) == ExecOut(st, NamesOf(st.app.cpus))
ListSensors(st) == ExecOut(st, NamesOf(st.app.sensors.list))
ListNetworks(st) == ExecOut(st, NamesOf(st.app.networks.list))

\* format!("{:.2}", self.app.sys.global_cpu_info().cpu_usage()), read after
\* self.app.refresh_cpus()
TotalCpuUsage(h, st, command, q) ==
  ExecOut(Log(st, "cpu_usage", <<>>),
          <<Render(h, command, q.field, st.app.refreshes)>>)

\* format!("{:.2}", self.cpu.cpu_usage()): the usage of the &Cpu the command
\* was bound to
CpuUsage(h, st, command, q) ==
  ExecOut(Log(st, "cpu_usage", <<>>), <<Render(h, command, q.field, command.at)>>)

\* total_space - avail_space of u64.  Below zero it is an overflow: a build
\* with overflow checks panics, one without goes on with the difference
\* modulo 2^64.
UsedSpace(d) ==
  IF Less(d.total, d.available)
    THEN [overflow |-> TRUE, v |-> Sub(Add(d.total, TwoTo64), d.available)]
    ELSE [overflow |-> FALSE, v |-> Sub(d.total, d.available)]

\* DataValue::from_bytes(bytes as f64, self.data_unit).value_str(): value is
\* the f64 that from_bytes is given, dv what it returns
ValueOut(st, value, dv) ==
  ExecOut(Log(st, "from_bytes",
              <<Digits(value), dv.unit, Digits(dv.value.num), Digits(dv.value.den)>>),
          << <<ValueStr(dv)>> >>)
ConvertedOut(st, value, unit) == ValueOut(st, value, FromBytes(value, unit))
BytesOut(st, command, bytes) == ConvertedOut(st, AsF64(bytes), command.data_unit)

\* match q { .. } of DriveCommand::exec
DriveField(h, st, command, field, d, used) ==
  CASE field = "usage" -> BytesOut(st, command, used)
    [] field = "total" -> BytesOut(st, command, d.total)
    [] field = "available" -> BytesOut(st, command, d.available)
    [] field = "mount-point" -> ExecOut(st, <<d.mount_point>>)
    [] OTHER -> ExecOut(st, <<Render(h, command, field, command.at)>>)

\* A used space that is computed in the `usage` arm only.
DriveUsedForUsageOnly(h, st, command, field, d, used) ==
  IF field # "usage" THEN DriveField(h, st, command, field, d, used.v)
  ELSE IF used.overflow /\ h.overflow_checks
    THEN ExecPanic(Log(st, "used_space", <<"overflow">>))
    ELSE DriveField(h, Log(st, "used_space", <<Digits(used.v)>>), command, field,
                    d, used.v)

\* let used_space = total_space - avail_space; and the match that follows
DriveUsed(h, st, command, field, d, used) ==
  IF used.overflow /\ h.overflow_checks
    THEN ExecPanic(Log(st, "used_space", <<"overflow">>))
    ELSE DriveField(h, Log(st, "used_space", <<Digits(used.v)>>), command, field,
                    d, used.v)

\* DriveCommand::exec, for a query that is not Query::None
DriveCommandExec(h, st, command, q) ==
  DriveUsed(h, st, command, q.field, h.space[command.name],
            UsedSpace(h.space[command.name]))

CommandExec(h, st, command, q) ==
  CASE command.cat = "list-cpus" -> ListCpus(RefreshCpu(h, st))
    [] command.cat = "list-sensors" -> ListSensors(ForceSensors(h, st))
    [] command.cat = "list-networks" -> ListNetworks(ForceNetworks(h, st))
    [] OTHER ->
         IF q = QueryNone THEN ExecOut(st, <<>>)
         ELSE IF q.cat # command.cat
           THEN ExecPanic(Log(st, "unreachable", <<q.field>>))   \* unreachable!()
         ELSE IF command.cat = "drive"
           THEN DriveCommandExec(h, Log(st, "exec", <<q.field>>), command, q)
         ELSE IF q.field = "total-cpu-usage"
           THEN TotalCpuUsage(h, RefreshCpus(h, Log(st, "exec", <<q.field>>)), command, q)
         ELSE IF command.cat = "cpu" /\ q.field = "usage"
           THEN CpuUsage(h, Log(st, "exec", <<q.field>>), command, q)
           ELSE ExecOut(Log(st, "exec", <<q.field>>),
                        <<Render(h, command, q.field, command.at)>>)

-----------------------------------------------------------------------------
(* CliCommand::exec of cli.rs: the field-list path.                        *)

RECURSIVE ExecAll(_, _, _, _, _)
\* An exec loop that keeps only the last query's strings.
ExtendReplacing(h, r, command, queries, output) ==
  IF r.panic THEN r ELSE ExecAll(h, r.st, command, queries, r.out)

\* output.extend(r), then the queries that are left
Extend(h, r, command, queries, output) ==
  IF r.panic THEN r ELSE ExecAll(h, r.st, command, queries, output \o r.out)

\* for q in queries { output.extend(cmd.exec(q)) }
ExecAll(h, st, command, queries, output) ==
  IF queries = <<>> THEN ExecOut(st, output)
  ELSE Extend(h, CommandExec(h, st, command, Head(queries)), command,
              Tail(queries), output)

\* FmtContext: HashMap<String, String>.  insert replaces the value of a key
\* that is present.
EmptyCtx == [k \in {} |-> <<>>]
\* An insert that keeps the value a key already has.
InsertKeepFirst(ctx, k, v) == ctx @@ (k :> v)

\* HashMap::insert: the value replaces the one the key had
Insert(ctx, k, v) == (k :> v) @@ ctx
NoCtx == EmptyCtx

\* One result of exec_cmd's callee: kind is "ok", "err" or "panic"; out is
\* the returned value (a String of format_string, a Vec<String> of exec).
Result(kind, st, out, ctx, err) ==
  [kind |-> kind, st |-> st, out |-> out, ctx |-> ctx, err |-> err]

\* Ok(output), unless an exec panicked
Output(r) ==
  IF r.panic THEN Result("panic", r.st, <<>>, NoCtx, NoErr)
  ELSE Result("ok", r.st, r.out, NoCtx, NoErr)

\* if !queries.is_empty() { for q in queries { output.extend(cmd.exec(q)) } }
\* else { output.extend(cmd.exec(Query::None)) }
ExecQueries(h, c) ==
  IF ~c.ok THEN Result("err", c.st, <<>>, NoCtx, c.err)
  ELSE IF c.queries # <<>>
    THEN Output(ExecAll(h, c.st, c.command, c.queries, <<>>))
    ELSE Output(CommandExec(h, c.st, c.command, QueryNone))

\* let mut app = Application::new(); let (mut cmd, queries) = app.command_from_cli(self)?;
CliCommandExec(h, cmd) ==
  ExecQueries(h, CommandFromCli(h, [app |-> NewApplication, trace |-> <<>>], cmd))


-----------------------------------------------------------------------------
(* Application::format_string and create_fmt_ctx of app.rs.                *)

RECURSIVE Closer(_, _)
\* (.*?)\% from position k, just after an opening percent sign: the lazy
\* group takes characters up to the next percent sign, and `.` matches no
\* line feed.  The position of the closing percent sign, or 0 for no match.
Closer(fmt, k) ==
  IF k > Len(fmt) THEN 0
  ELSE IF fmt[k] = "%" THEN k
  ELSE IF fmt[k] = "\n" THEN 0
  ELSE Closer(fmt, k + 1)

RECURSIVE Captures(_, _)
\* One match, from the percent sign at i to the one at q, and the matches
\* after it; the search goes on at i + 1 when nothing matches at i (q = 0).
Match(fmt, i, q) ==
  IF q # 0 THEN <<[open |-> i, close |-> q]>> \o Captures(fmt, q + 1)
  ELSE Captures(fmt, i + 1)

\* The successive non-overlapping matches of \%(.*?)\% in fmt from position
\* i on, leftmost first: the positions of both percent signs of each.
Captures(fmt, i) ==
  IF i > Len(fmt) THEN <<>>
  ELSE IF fmt[i] = "%" THEN Match(fmt, i, Closer(fmt, i + 1))
  ELSE Captures(fmt, i + 1)

\* caps[1]: the text of the capture group of one match.
Group(fmt, sp) == SubSeq(fmt, sp.open + 1, sp.close - 1)

\* captures_iter(fmt) ... collect(): the texts of all matches, in order.
Groups(fmt, spans) == [i \in 1..Len(spans) |-> Group(fmt, spans[i])]
Specs(fmt) == Groups(fmt, Captures(fmt, 1))

\* A filter that keeps the empty specifiers.
NonEmptyKeepAll(specs) == specs

\* specs.iter().filter(|s| !s.is_empty()).cloned().collect()
NonEmpty(specs) == SelectSeq(specs, LAMBDA s : s # <<>>)

RECURSIVE ParseAll(_, _, _, _)
\* for s in &specs { queries.push(Query::from_str(cli_cmd, s)?) }
\* queries.push(r?), then the specifiers that are left
Push(cat, specs, st, queries, r) ==
  IF ~r.ok THEN [ok |-> FALSE, st |-> st, queries |-> <<>>, err |-> r.err]
  ELSE ParseAll(cat, specs, st, Append(queries, r.q))

ParseAll(cat, specs, st, queries) ==
  IF specs = <<>> THEN [ok |-> TRUE, st |-> st, queries |-> queries, err |-> NoErr]
  ELSE Push(cat, Tail(specs), Log(st, "parse", Head(specs)), queries,
            QueryFromStr(cat, Head(specs)))

RECURSIVE InsertAll(_, _, _, _, _, _)
\* queries.into_iter().zip(specs).for_each(|(q, s)| {
\*     ctx.insert(s.to_string(), cmd.exec(q).first().unwrap().to_string()); })
\* An insert under the lower-case spelling of the specifier.
InsertFirstLowerKey(h, r, command, queries, specs, ctx, s) ==
  IF r.panic \/ r.out = <<>> THEN Result("panic", r.st, <<>>, NoCtx, NoErr)
  ELSE InsertAll(h, Log(Log(r.st, "insert", s), "value", r.out[1]), command,
                 queries, specs, Insert(ctx, <<ToLower(s[1])>>, r.out[1]))

\* ctx.insert(s, r.first().unwrap()), then the pairs that are left
InsertFirst(h, r, command, queries, specs, ctx, s) ==
  IF r.panic \/ r.out = <<>> THEN Result("panic", r.st, <<>>, NoCtx, NoErr)
  ELSE InsertAll(h, Log(Log(r.st, "insert", s), "value", r.out[1]), command,
                 queries, specs, Insert(ctx, s, r.out[1]))

InsertAll(h, st, command, queries, specs, ctx) ==
  IF queries = <<>> \/ specs = <<>> THEN Result("ok", st, <<>>, ctx, NoErr)
  ELSE InsertFirst(h, CommandExec(h, st, command, Head(queries)), command,
                   Tail(queries), Tail(specs), ctx, Head(specs))

\* A binding that executes the queries of the command line, not those of
\* the template.
BindAndInsertCliQueries(h, c, queries, specs) ==
  IF ~c.ok THEN Result("err", c.st, <<>>, NoCtx, c.err)
  ELSE InsertAll(h, c.st, c.command, c.queries, specs,
                 Insert(EmptyCtx, <<>>, <<"%">>))

\* let (mut cmd, _) = self.command_from_cli(cli_cmd)?; and the inserts
BindAndInsert(h, c, queries, specs) ==
  IF ~c.ok THEN Result("err", c.st, <<>>, NoCtx, c.err)
  ELSE InsertAll(h, c.st, c.command, queries, specs,
                 Insert(EmptyCtx, <<>>, <<"%">>))

\* the parsed queries, or the error of the first token that is no field
ParsedThenBind(h, cmd, specs, p) ==
  IF ~p.ok THEN Result("err", p.st, <<>>, NoCtx, p.err)
  ELSE BindAndInsert(h, CommandFromCli(h, p.st, cmd), p.queries, specs)

\* A context built by binding the command first and parsing the specifiers
\* after.
ParsedThenInsert(h, c, specs, p) ==
  IF ~p.ok THEN Result("err", p.st, <<>>, NoCtx, p.err)
  ELSE InsertAll(h, p.st, c.command, p.queries, specs,
                 Insert(EmptyCtx, <<>>, <<"%">>))
BoundThenParse(h, cmd, specs, c) ==
  IF ~c.ok THEN Result("err", c.st, <<>>, NoCtx, c.err)
  ELSE ParsedThenInsert(h, c, specs, ParseAll(cmd.cat, specs, c.st, <<>>))
CreateFmtCtxBindFirst(h, st, cmd, specs) ==
  BoundThenParse(h, cmd, specs, CommandFromCli(h, st, cmd))

\* the parse loop over the specifiers, then the command and the inserts
CreateFmtCtxOf(h, st, cmd, specs) ==
  ParsedThenBind(h, cmd, specs, ParseAll(cmd.cat, specs, st, <<>>))

CreateFmtCtx(h, st, cmd, specs0) == CreateFmtCtxOf(h, st, cmd, NonEmpty(specs0))

RECURSIVE ReplaceAll(_, _, _, _)
\* re.replace_all(fmt, |caps| fmt_ctx.get(&caps[1]).unwrap()): the text
\* between the matches is kept, each match is replaced by the value of its
\* group; the unwrap panics on a group that is no key.
\* A replacement that loses the text before the match.
PieceWithoutBefore(before, value, rest) ==
  IF rest.panic THEN rest ELSE [panic |-> FALSE, out |-> value \o rest.out]

\* the text before a match, the replacement, and what follows
Piece(before, value, rest) ==
  IF rest.panic THEN rest ELSE [panic |-> FALSE, out |-> before \o value \o rest.out]

ReplaceOne(fmt, sp, key, spans, i, ctx) ==
  IF key \notin DOMAIN ctx THEN [panic |-> TRUE, out |-> <<>>]
  ELSE Piece(SubSeq(fmt, i, sp.open - 1), ctx[key],
             ReplaceAll(fmt, spans, sp.close + 1, ctx))

ReplaceAll(fmt, spans, i, ctx) ==
  IF spans = <<>> THEN [panic |-> FALSE, out |-> SubSeq(fmt, i, Len(fmt))]
  ELSE ReplaceOne(fmt, Head(spans), Group(fmt, Head(spans)), Tail(spans), i, ctx)

\* A result that carries the line feed of println! in the returned String.
ReplacedWithLineFeed(c, r) ==
  IF r.panic THEN Result("panic", c.st, <<>>, c.ctx, NoErr)
  ELSE Result("ok", c.st, r.out \o <<"\n">>, c.ctx, NoErr)

\* A result whose placeholders are replaced a second time.
ReplacedRescanned(c, r) ==
  IF r.panic THEN Result("panic", c.st, <<>>, c.ctx, NoErr)
  ELSE Result(IF ReplaceAll(r.out, Captures(r.out, 1), 1, c.ctx).panic
                THEN "panic" ELSE "ok",
              c.st, ReplaceAll(r.out, Captures(r.out, 1), 1, c.ctx).out, c.ctx, NoErr)

\* Ok(re.replace_all(..).to_string())
Replaced(c, r) ==
  IF r.panic THEN Result("panic", c.st, <<>>, c.ctx, NoErr)
  ELSE Result("ok", c.st, r.out, c.ctx, NoErr)

\* let fmt_ctx = self.create_fmt_ctx(cmd, specs)?; and the replacement
Substitute(fmt, c) ==
  IF c.kind # "ok" THEN c
  ELSE Replaced(c, ReplaceAll(fmt, Captures(fmt, 1), 1, c.ctx))

FormatString(h, st, cmd, fmt) == Substitute(fmt, CreateFmtCtx(h, st, cmd, Specs(fmt)))


-----------------------------------------------------------------------------
(* Application::exec_cmd of app.rs.                                        *)

\* unescaper::unescape of the delimiter, on the delimiters of the model.
Unescape(d) ==
  CASE d = "\\n" -> [ok |-> TRUE, s |-> "\n"]
    [] d = "\\q" -> [ok |-> FALSE, s |-> ""]
    [] OTHER -> [ok |-> TRUE, s |-> d]

\* data.len() - 1 of usize, in the body of the loop: it is evaluated once
\* for each element, and is below zero (an overflow of usize) when it is
\* evaluated on an empty Vec.
LenMinusOne(data) == Len(data) - 1
PrintOverflows(data) == \E i \in 1..Len(data) : LenMinusOne(data) < 0

RECURSIVE PrintData(_, _, _)
\* A loop that prints the delimiter after every element.
PrintDataDelimiterAfterEach(data, i, delimiter) ==
  IF i > Len(data) THEN <<>>
  ELSE data[i] \o <<delimiter>> \o (IF i - 1 < LenMinusOne(data) THEN <<>> ELSE <<"\n">>)
         \o PrintData(data, i + 1, delimiter)

\* for (i, d) in data.iter().enumerate() {
\*     if i < data.len() - 1 { print!("{}{}", d, delimiter) } else { println!("{}", d) } }
PrintData(data, i, delimiter) ==
  IF i > Len(data) THEN <<>>
  ELSE data[i] \o (IF i - 1 < LenMinusOne(data) THEN <<delimiter>> ELSE <<"\n">>)
         \o PrintData(data, i + 1, delimiter)

\* What one exec_cmd does: res is what its callee returned, with the
\* Application `self` is left in; printed is what went to stdout.
\* println!("{}", self.format_string(&cli.cmd, fmt)?)
PrintFormatted(r) ==
  [res |-> r, printed |-> IF r.kind = "ok" THEN r.out \o <<"\n">> ELSE <<>>]

\* let data = cli.cmd.exec()?; and the loop that prints it.  The Application
\* of CliCommand::exec is its own: `self` is left as it was.
PrintJoined(st, r, delimiter) ==
  [res |-> [r EXCEPT !.st = [app |-> st.app, trace |-> r.st.trace],
                     !.kind = IF @ = "ok" /\ PrintOverflows(r.out) THEN "panic" ELSE @],
   printed |-> IF r.kind = "ok" /\ ~PrintOverflows(r.out)
                 THEN PrintData(r.out, 1, delimiter) ELSE <<>>]

ExecCmdWith(h, st, c, d) ==
  IF ~d.ok
    THEN [res |-> Result("err", st, <<>>, NoCtx, Err("InvalidDelimiter", "", <<>>)),
          printed |-> <<>>]
  ELSE IF c.has_fmt
    THEN PrintFormatted(FormatString(h, st, c.cmd, c.fmt))
    ELSE PrintJoined(st, CliCommandExec(h, c.cmd), d.s)

ExecCmd(h, st, c) == ExecCmdWith(h, st, c, Unescape(c.delimiter))

-----------------------------------------------------------------------------
(* The inputs of the model.                                                *)

\* The provider's entities.  The CPU usage differs from one sample to the
\* next on the second host; the third has no value for the optional fields.
\* A disk: its sizes in bytes and the path it is mounted at.
Disk(total, available, mount_point) ==
  [total |-> total, available |-> available, mount_point |-> mount_point]

\* The disks of the hosts: 5001|0786|2016 bytes of which 1250|2696|5504 are
\* available, and 2|0003|9893|4016 bytes of which 1|2002|3936|0409 are
\* available, mounted at a path that holds percent signs.
Space ==
  [sda1 |-> Disk(<<2016, 786, 5001>>, <<5504, 2696, 1250>>, <<"mount-point@sda1">>),
   sdb1 |-> Disk(<<4016, 9893, 3, 2>>, <<409, 3936, 2002, 1>>,
                 <<"/mnt/", "%", "usage", "%">>)]

Host(u, o) ==
  [cpus |-> <<"cpu0", "cpu1">>, disks |-> <<"sda1", "sdb1">>,
   components |-> <<"coretemp", "nvme">>, networks |-> <<"lo", "eth0">>,
   usage |-> u, optional |-> o, space |-> Space, overflow_checks |-> TRUE]

Hosts ==
  { Host(<<"12.34">>, TRUE), Host(<<"12.34", "56.78", "90.12">>, TRUE),
    Host(<<"12.34">>, FALSE) }

\* The entity names asked for: one the host has, one it has not.
Names(cat) ==
  CASE cat = "cpu" -> {"cpu1", "cpu9"}
    [] cat = "drive" -> {"sda1", "sdx1"}
    [] cat = "sensor" -> {"nvme", "fan9"}
    [] cat = "network" -> {"eth0", "wlan9"}
    [] OTHER -> {""}

\* The field tokens the templates and field lists of the model use: two
\* fields of the category, and a spelling of the first in other case.
Token1(cat) ==
  CASE cat = "os" -> "total-cpu-usage"
    [] cat = "sensor" -> "temperature"
    [] cat = "network" -> "mac-address"
    [] OTHER -> "usage"

Token2(cat) ==
  CASE cat = "os" -> "name"
    [] cat = "cpu" -> "brand"
    [] cat = "drive" -> "mount-point"
    [] cat = "sensor" -> "critical-temp"
    [] cat = "network" -> "total-received-data"
    [] OTHER -> "total"

Token1OtherCase(cat) ==
  CASE cat = "os" -> "Total-CPU-Usage"
    [] cat = "sensor" -> "TEMPERATURE"
    [] cat = "network" -> "MAC-AddREss"
    [] OTHER -> "USAGE"

\* The parts a template is put together from: single lexemes, and whole
\* placeholders.
Parts(cat) ==
  { <<"x">>, <<"\n">>, <<"%">>, <<Token1(cat)>>,
    <<"%", "%">>, <<"%", Token1(cat), "%">>, <<"%", Token2(cat), "%">>,
    <<"%", "bogus", "%">>, <<"%", Token1OtherCase(cat), "%">> }

RECURSIVE Concat(_)
Concat(ss) == IF ss = <<>> THEN <<>> ELSE Head(ss) \o Concat(Tail(ss))

SeqsUpTo(S, n) == UNION { [1..k -> S] : k \in 0..n }

Templates(cat) == { Concat(ps) : ps \in SeqsUpTo(Parts(cat), MaxParts) }

\* Field lists: clap has parsed each into a variant of the category's enum.
QueryLists(cat) ==
  IF cat \in ListCategories THEN {<<>>}
  ELSE SeqsUpTo({Token1(cat), Token2(cat)}, MaxQueries)

\* data_unit is the unit byte counts are shown in: bytes, when the command
\* line names no other.
Cmd(cat, name, queries) ==
  [cat |-> cat, name |-> name, queries |-> queries, data_unit |-> "bytes"]

\* The longer templates checked beside the enumerated ones.
ExampleTemplate ==
  <<"CPU: ", "%", "usage", "%", "%", "%", " Mem: ", "%", "total", "%">>

NoResult ==
  [kind |-> "none", out |-> <<>>, ctx |-> NoCtx, err |-> NoErr, trace |-> <<>>,
   printed |-> <<>>]

\* One run (run_times = 1) with a template: every template of the bound.
InitFmt ==
  \E cat \in CliCommand : \E name \in Names(cat) : \E t \in Templates(cat) :
    cli = [cmd |-> Cmd(cat, name, <<>>), has_fmt |-> TRUE, fmt |-> t,
           delimiter |-> "\\n", run_times |-> 1, interval |-> FALSE]

\* One run with a field list.
InitList ==
  \E cat \in CliCommand : \E name \in Names(cat) : \E qs \in QueryLists(cat) :
    \E d \in {",", "\\n"} :
      cli = [cmd |-> Cmd(cat, name, qs), has_fmt |-> FALSE, fmt |-> <<>>,
             delimiter |-> d, run_times |-> 1, interval |-> FALSE]

\* Spellings of the two field tokens that differ in case only.
Token1Spellings(cat) ==
  CASE cat = "os" -> {"total-cpu-usage", "Total-CPU-Usage", "TOTAL-CPU-USAGE"}
    [] cat = "sensor" -> {"temperature", "Temperature", "TEMPERATURE"}
    [] cat = "network" -> {"mac-address", "MAC-AddREss", "MAC-ADDRESS"}
    [] cat \in {"cpu", "memory", "swap", "drive"} -> {"usage", "Usage", "USAGE"}
    [] OTHER -> {}

Token2Spellings(cat) ==
  CASE cat = "os" -> {"name", "NAME"}
    [] cat = "cpu" -> {"brand", "Brand"}
    [] cat = "drive" -> {"mount-point", "Mount-Point"}
    [] cat = "sensor" -> {"critical-temp", "Critical-Temp"}
    [] cat = "network" -> {"total-received-data", "Total-Received-Data"}
    [] cat \in {"memory", "swap"} -> {"total", "TOTAL"}
    [] OTHER -> {}

CaseVariants(cat) == Token1Spellings(cat) \cup Token2Spellings(cat)

\* Templates of at most MaxQueries placeholders, each a spelling of a field.
CaseTemplates(cat) ==
  { Concat([i \in DOMAIN vs |-> <<"%", vs[i], "%">>]) :
      vs \in SeqsUpTo(CaseVariants(cat), MaxQueries) }

\* One run with a template whose placeholders differ in case.
InitCase ==
  \E cat \in FieldCategories : \E name \in Names(cat) : \E t \in CaseTemplates(cat) :
    cli = [cmd |-> Cmd(cat, name, <<>>), has_fmt |-> TRUE, fmt |-> t,
           delimiter |-> "\\n", run_times |-> 1, interval |-> FALSE]

\* The templates of the repeated runs.
LoopTemplates(cat) ==
  { ExampleTemplate, <<"%", Token1(cat), "%", "x", "%", Token2(cat), "%">> }

\* One run that asks for an optional field, in a field list and in a
\* template.
InitOptional ==
  \E cat \in {"os", "sensor"} : \E name \in Names(cat) :
    \E f \in OptionalFields(cat) : \E fmt \in BOOLEAN :
      cli = [cmd |-> Cmd(cat, name, IF fmt THEN <<>> ELSE <<f, Token1(cat)>>),
             has_fmt |-> fmt,
             fmt |-> IF fmt THEN <<"[", "%", f, "%", "]">> ELSE <<>>,
             delimiter |-> ",", run_times |-> 1, interval |-> FALSE]

\* One run with a template and a field list beside it.
InitFmtQueries ==
  \E cat \in CliCommand : \E name \in Names(cat) : \E t \in LoopTemplates(cat) :
    \E qs \in QueryLists(cat) :
      cli = [cmd |-> Cmd(cat, name, qs), has_fmt |-> TRUE, fmt |-> t,
             delimiter |-> ",", run_times |-> 1, interval |-> FALSE]

\* Repeated runs (run_times = 0 is without end), with a field list or with a
\* template.
InitLoop ==
  \E cat \in CliCommand : \E name \in Names(cat) :
    \E f \in BOOLEAN : \E n \in 0..(MaxRuns - 1) : \E i \in BOOLEAN :
      \E t \in (IF f THEN LoopTemplates(cat) ELSE {<<>>}) :
        cli = [cmd |-> Cmd(cat, name,
                           IF cat \in ListCategories THEN <<>>
                           ELSE <<Token1(cat), Token2(cat)>>),
               has_fmt |-> f, fmt |-> t,
               delimiter |-> ",", run_times |-> n, interval |-> i]

\* Templates for a value that holds percent signs: the mount point alone,
\* before a placeholder, before text that a percent sign follows, and
\* before an empty placeholder.
PercentTemplates ==
  { <<"%", "mount-point", "%">>,
    <<"%", "mount-point", "%", "%", "usage", "%">>,
    <<"%", "mount-point", "%", "usage", "%", "total", "%">>,
    <<"%", "mount-point", "%", "x", "%", "%">> }

\* One run with a template on the drive whose mount point holds percent
\* signs.
InitPercent ==
  \E t \in PercentTemplates :
    cli = [cmd |-> Cmd("drive", "sdb1", <<>>), has_fmt |-> TRUE, fmt |-> t,
           delimiter |-> "\\n", run_times |-> 1, interval |-> FALSE]

Init ==
  /\ \/ InitFmt \/ InitList \/ InitCase \/ InitOptional \/ InitFmtQueries \/ InitLoop
     \/ InitPercent
  /\ host \in Hosts
  /\ app = NewApplication
  /\ pc = "start"
  /\ cnt = 0
  /\ runs = 0
  /\ sleeps = 0
  /\ stdout = <<>>
  /\ last = NoResult

-----------------------------------------------------------------------------
(* Application::run of app.rs.                                             *)

\* self.exec_cmd(&cli): the effects of one call on the state.
DoExecCmd ==
  \E r \in {ExecCmd(host, [app |-> app, trace |-> <<>>], cli)} :
      /\ app' = r.res.st.app
      /\ stdout' = stdout \o r.printed
      /\ last' = [kind |-> r.res.kind, out |-> r.res.out, ctx |-> r.res.ctx,
                  err |-> r.res.err, trace |-> r.res.st.trace,
                  printed |-> r.printed]
      /\ runs' = runs + 1

Outcome(kind) ==
  CASE kind = "ok" -> "done" [] kind = "err" -> "failed" [] OTHER -> "panicked"

\* if cli.run_times == 1 { return self.exec_cmd(&cli); }
RunOnce ==
  /\ pc = "start"
  /\ cli.run_times = 1
  /\ DoExecCmd
  /\ pc' = Outcome(last'.kind)
  /\ UNCHANGED <<cli, host, cnt, sleeps>>

\* let mut cnt = 0u64; loop {
EnterLoop ==
  /\ pc = "start"
  /\ cli.run_times # 1
  /\ pc' = "loop"
  /\ cnt' = 0
  /\ UNCHANGED <<cli, host, app, runs, sleeps, stdout, last>>

\* A loop test without `cli.run_times > 0`.
LoopBreakWithoutZeroTest ==
  /\ pc = "loop"
  /\ cnt >= cli.run_times
  /\ pc' = "done"
  /\ UNCHANGED <<cli, host, app, cnt, runs, sleeps, stdout, last>>

\* if cli.run_times > 0 && cnt >= cli.run_times { break; } ... Ok(())
LoopBreak ==
  /\ pc = "loop"
  /\ cli.run_times > 0 /\ cnt >= cli.run_times
  /\ pc' = "done"
  /\ UNCHANGED <<cli, host, app, cnt, runs, sleeps, stdout, last>>

\* self.exec_cmd(&cli)?;
LoopExec ==
  /\ pc = "loop"
  /\ ~(cli.run_times > 0 /\ cnt >= cli.run_times)
  /\ runs < MaxRuns
  /\ DoExecCmd
  /\ pc' = IF last'.kind = "ok" THEN "executed" ELSE Outcome(last'.kind)
  /\ UNCHANGED <<cli, host, cnt, sleeps>>

\* A loop end that counts every second execution only.
LoopSleepCountingHalf ==
  /\ pc = "executed"
  /\ sleeps' = IF cli.interval THEN sleeps + 1 ELSE sleeps
  /\ cnt' = IF cli.run_times # 0 /\ runs % 2 = 0 THEN cnt + 1 ELSE cnt
  /\ pc' = "loop"
  /\ UNCHANGED <<cli, host, app, runs, stdout, last>>

\* if let Some(i) = cli.interval { thread::sleep(*i); }
\* if cli.run_times != 0 { cnt += 1; }
LoopSleep ==
  /\ pc = "executed"
  /\ runs <= MaxRuns
  /\ sleeps' = IF cli.interval THEN sleeps + 1 ELSE sleeps
  /\ cnt' = IF cli.run_times # 0 THEN cnt + 1 ELSE cnt
  /\ pc' = "loop"
  /\ UNCHANGED <<cli, host, app, runs, stdout, last>>

Next == RunOnce \/ EnterLoop \/ LoopBreak \/ LoopExec \/ LoopSleep

Spec == Init /\ [][Next]_vars

\* The number of refreshes, kept from growing without bound: the usage the
\* provider reports after k >= 2 refreshes depends on k modulo the number of
\* its samples only.
Folded(h, k) ==
  IF k < 2 + Len(h.usage) THEN k ELSE 2 + ((k - 2) % Len(h.usage))

\* The loop beyond MaxRuns executions: exec_cmd goes on as before; runs
\* stays at MaxRuns + 1 (more than MaxRuns), stdout keeps the output of the
\* first MaxRuns executions.
LoopExecAgain ==
  /\ pc = "loop"
  /\ ~(cli.run_times > 0 /\ cnt >= cli.run_times)
  /\ runs >= MaxRuns
  /\ \E r \in {ExecCmd(host, [app |-> app, trace |-> <<>>], cli)} :
       /\ app' = [r.res.st.app EXCEPT !.refreshes = Folded(host, @)]
       /\ last' = [kind |-> r.res.kind, out |-> r.res.out, ctx |-> r.res.ctx,
                   err |-> r.res.err, trace |-> r.res.st.trace,
                   printed |-> r.printed]
  /\ runs' = MaxRuns + 1
  /\ pc' = IF last'.kind = "ok" THEN "executed" ELSE Outcome(last'.kind)
  /\ UNCHANGED <<cli, host, cnt, sleeps, stdout>>

\* The end of the loop body beyond MaxRuns executions: sleeps keeps the
\* count of the sleeps after the first MaxRuns executions.
LoopSleepAgain ==
  /\ pc = "executed"
  /\ runs > MaxRuns
  /\ cnt' = IF cli.run_times # 0 THEN cnt + 1 ELSE cnt
  /\ pc' = "loop"
  /\ UNCHANGED <<cli, host, app, runs, sleeps, stdout, last>>

\* The repeated runs alone, without a bound on the executions, and a
\* process that takes its next step whenever it has one.
LoopInit ==
  /\ InitLoop
  /\ host \in Hosts
  /\ app = NewApplication
  /\ pc = "start"
  /\ cnt = 0
  /\ runs = 0
  /\ sleeps = 0
  /\ stdout = <<>>
  /\ last = NoResult

LoopNext ==
  \/ RunOnce \/ EnterLoop \/ LoopBreak \/ LoopExec \/ LoopSleep
  \/ LoopExecAgain \/ LoopSleepAgain

\* The step of the loop body that runs exec_cmd, seen on pc alone: the
\* steps of LoopExec and LoopExecAgain, and no other step of LoopNext, leave
\* "loop" for one of these three places, and one of the two is enabled
\* whenever the loop test fails, because exec_cmd returns on every input.
ExecStep ==
  /\ pc = "loop"
  /\ ~(cli.run_times > 0 /\ cnt >= cli.run_times)
  /\ pc' \in {"executed", "failed", "panicked"}

\* The thread is never suspended for good: it runs exec_cmd when the loop
\* test has failed, and goes on after it.
LoopSpec ==
  /\ LoopInit /\ [][LoopNext]_vars
  /\ WF_pc(ExecStep)
  /\ WF_vars(LoopSleep \/ LoopSleepAgain)


-----------------------------------------------------------------------------
(* One run of a Drive command, on the disks a provider can report and in   *)
(* every unit.                                                             *)

\* The disk sda1 as a provider reports it: 5001|0786|2016 bytes of which
\* 1250|2696|5504 are available; 3|0005|9298|2016 of which 3750|8089|6512;
\* none available; and two reports of more available than there is in
\* total, by one byte and by 3750|8089|6512 bytes.
DriveDisks ==
  { Disk(<<2016, 786, 5001>>, <<5504, 2696, 1250>>, <<"/">>),
    Disk(<<2016, 9298, 5, 3>>, <<6512, 8089, 3750>>, <<"/">>),
    Disk(<<2016, 786, 5001>>, <<>>, <<"/">>),
    Disk(<<2016, 786, 5001>>, <<2017, 786, 5001>>, <<"/">>),
    Disk(<<5504, 2696, 1250>>, <<2016, 786, 5001>>, <<"/">>) }

\* The hosts: a disk, and a build with or without overflow checks.
DriveHosts ==
  { [Host(<<"12.34">>, TRUE) EXCEPT !.space.sda1 = d, !.overflow_checks = c] :
      d \in DriveDisks, c \in BOOLEAN }

DriveFieldLists ==
  {<<>>, <<"usage", "fs">>, <<"total", "available">>}
    \cup { <<f>> : f \in DriveQuery }

DriveTemplates ==
  { <<"%", "usage", "%", "/", "%", "total", "%">>, <<"%", "kind", "%">> }

DriveInit ==
  /\ \E u \in DataUnit : \E f \in BOOLEAN :
       \E qs \in (IF f THEN {<<>>} ELSE DriveFieldLists) :
         \E t \in (IF f THEN DriveTemplates ELSE {<<>>}) :
           cli = [cmd |-> [Cmd("drive", "sda1", qs) EXCEPT !.data_unit = u],
                  has_fmt |-> f, fmt |-> t,
                  delimiter |-> ",", run_times |-> 1, interval |-> FALSE]
  /\ host \in DriveHosts
  /\ app = NewApplication
  /\ pc = "start"
  /\ cnt = 0
  /\ runs = 0
  /\ sleeps = 0
  /\ stdout = <<>>
  /\ last = NoResult

DriveSpec == DriveInit /\ [][RunOnce]_vars

-----------------------------------------------------------------------------
(* Notions the properties are stated with.                                 *)

\* The last exec_cmd formatted the template / executed the field list.
FmtRan == runs > 0 /\ cli.has_fmt
ListRan == runs > 0 /\ ~cli.has_fmt
FmtOk == FmtRan /\ last.kind = "ok"

Range(f) == { f[i] : i \in DOMAIN f }
CountEv(trace, e) == Cardinality({ i \in DOMAIN trace : trace[i].ev = e })
CountEvArg(trace, e, a) ==
  Cardinality({ i \in DOMAIN trace : trace[i].ev = e /\ trace[i].arg = a })

\* The entity of the category that the command line names.
TargetResolves ==
  CASE cli.cmd.cat = "cpu" -> cli.cmd.name \in Range(host.cpus)
    [] cli.cmd.cat = "drive" -> cli.cmd.name \in Range(host.disks)
    [] cli.cmd.cat = "sensor" -> cli.cmd.name \in Range(host.components)
    [] cli.cmd.cat = "network" -> cli.cmd.name \in Range(host.networks)
    [] OTHER -> TRUE

TargetName == IF cli.cmd.cat \in NamedCategories THEN cli.cmd.name ELSE cli.cmd.cat

\* The Strings a field of the target can render to on this host.
DiskBytes(d, field) ==
  CASE field = "usage" -> UsedSpace(d).v
    [] field = "total" -> d.total
    [] field = "available" -> d.available

Renderings(field) ==
  IF field = "total-cpu-usage" \/ (cli.cmd.cat = "cpu" /\ field = "usage")
    THEN { <<u>> : u \in Range(host.usage) \cup {"0.00"} }
  ELSE IF cli.cmd.cat = "drive" /\ field \in {"usage", "total", "available"}
    THEN { <<ValueStr(FromBytes(AsF64(DiskBytes(host.space[TargetName], field)),
                                cli.cmd.data_unit))>> }
  ELSE IF cli.cmd.cat = "drive" /\ field = "mount-point"
    THEN { host.space[TargetName].mount_point }
  ELSE IF field \in OptionalFields(cli.cmd.cat) /\ ~host.optional
    THEN { <<>> }
    ELSE { <<field \o "@" \o TargetName>> }

\* A placeholder text that names a field of the category, in any case.
IsFieldText(cat, t) == Len(t) = 1 /\ ToLower(t[1]) \in Fields(cat)

RECURSIVE ScanTexts(_, _, _, _, _)
\* The two-state scanner (COPY, PLACEHOLDER) over a template: the texts of
\* the placeholders, in order.  A percent sign toggles the state; with
\* lineRule, a line feed inside a placeholder ends it without a match, and
\* the scanner copies again.  A placeholder open at the end closes nothing.
ScanTexts(fmt, i, inside, text, lineRule) ==
  IF i > Len(fmt) THEN <<>>
  ELSE IF ~inside
    THEN ScanTexts(fmt, i + 1, fmt[i] = "%", <<>>, lineRule)
  ELSE IF fmt[i] = "%"
    THEN <<text>> \o ScanTexts(fmt, i + 1, FALSE, <<>>, lineRule)
  ELSE IF lineRule /\ fmt[i] = "\n"
    THEN ScanTexts(fmt, i + 1, FALSE, <<>>, lineRule)
  ELSE ScanTexts(fmt, i + 1, TRUE, Append(text, fmt[i]), lineRule)

\* The placeholder texts of the template of the command line.
PlaceholderTexts == ScanTexts(cli.fmt, 1, FALSE, <<>>, TRUE)
NonEmptyTexts == SelectSeq(PlaceholderTexts, LAMBDA t : t # <<>>)
AllTextsAreFields ==
  \A i \in DOMAIN NonEmptyTexts : IsFieldText(cli.cmd.cat, NonEmptyTexts[i])

RECURSIVE ScanRender(_, _, _, _, _, _)
\* The same scanner writing the output: text outside placeholders is copied,
\* a closed placeholder is replaced by the value of its text (by "?" when
\* the text has none), an unclosed one is copied with its percent sign.
ScanRender(fmt, i, inside, text, value, lineRule) ==
  IF i > Len(fmt) THEN (IF inside THEN <<"%">> \o text ELSE <<>>)
  ELSE IF ~inside
    THEN IF fmt[i] = "%"
           THEN ScanRender(fmt, i + 1, TRUE, <<>>, value, lineRule)
           ELSE <<fmt[i]>> \o ScanRender(fmt, i + 1, FALSE, <<>>, value, lineRule)
  ELSE IF fmt[i] = "%"
    THEN (IF text \in DOMAIN value THEN value[text] ELSE <<"?">>)
           \o ScanRender(fmt, i + 1, FALSE, <<>>, value, lineRule)
  ELSE IF lineRule /\ fmt[i] = "\n"
    THEN <<"%">> \o text \o <<"\n">>
           \o ScanRender(fmt, i + 1, FALSE, <<>>, value, lineRule)
  ELSE ScanRender(fmt, i + 1, TRUE, Append(text, fmt[i]), value, lineRule)

\* The template ends in state PLACEHOLDER: it holds an odd number of percent
\* signs.
EndsInsidePlaceholder ==
  Cardinality({ i \in DOMAIN cli.fmt : cli.fmt[i] = "%" }) % 2 = 1


-----------------------------------------------------------------------------
(* The properties.                                                         *)

\* C1: in one call of format_string, each non-empty placeholder text is
\* computed (Command::exec, whose String is inserted under the text) at most
\* once, however often the text occurs in the template.
C1_OneComputationPerText ==
  FmtRan => \A i \in DOMAIN NonEmptyTexts :
              CountEvArg(last.trace, "insert", NonEmptyTexts[i]) <= 1

\* C2: one call of format_string runs the two-phase CPU refresh (refresh,
\* sleep, refresh) at most once, whatever the placeholders of the template.
C2_OneCpuRefreshPerFormat ==
  FmtRan => CountEv(last.trace, "sleep_min_cpu_interval") <= 1

\* C3: format_string fails with an unterminated-placeholder error, and
\* returns no String, for every template that ends inside a placeholder.
C3_UnterminatedFails ==
  (FmtRan /\ EndsInsidePlaceholder)
    => (last.kind = "err" /\ last.err.kind = "UnterminatedPlaceholder"
        /\ last.printed = <<>>)

C5_ListCategoryAlwaysFails ==
  (FmtRan /\ cli.cmd.cat \in ListCategories)
    => (last.kind = "err" /\ last.err.kind = "NoArguments" /\ last.printed = <<>>)


EmptyAsLiteral ==
  ScanRender(cli.fmt, 1, FALSE, <<>>,
             [t \in Range(PlaceholderTexts) |->
                IF t = <<>> THEN <<"x">> ELSE <<"%">> \o t \o <<"%">>],
             TRUE)

\* C7: every empty placeholder `%%` is replaced by exactly one "%", and
\* causes no parsing, computation or refresh: the first run does and fails
\* or succeeds exactly as it would on the template with literal text in the
\* place of each `%%`.
C7_EmptyPlaceholderIsPercent ==
  (FmtRan /\ runs = 1) =>
    LET r == FormatString(host, [app |-> NewApplication, trace |-> <<>>],
                          cli.cmd, EmptyAsLiteral)
    IN  /\ last.kind = r.kind
        /\ last.trace = r.st.trace
        /\ \A i \in DOMAIN last.trace : last.trace[i].arg # <<>> \/ last.trace[i].ev \notin {"parse", "insert"}
        /\ last.kind = "ok" =>
             last.out = ScanRender(cli.fmt, 1, FALSE, <<>>,
                                   (<<>> :> <<"%">>) @@ r.ctx, TRUE)

\* C7 witness: `%total-cpu-usage%%%x` on Os gives the usage, "%" and "x".
C7_Witness ==
  /\ FmtOk /\ cli.cmd.cat = "os"
  /\ cli.fmt = <<"%", "total-cpu-usage", "%", "%", "%", "x">>
  /\ Len(last.out) = 3 /\ last.out[2] = "%" /\ last.out[3] = "x"
  /\ CountEv(last.trace, "parse") = 1

\* C8: for a field category whose target resolves, a template without any
\* percent sign is returned unchanged.
C8_LiteralRoundTrip ==
  (FmtRan /\ cli.cmd.cat \in FieldCategories /\ TargetResolves
     /\ \A i \in DOMAIN cli.fmt : cli.fmt[i] # "%")
    => (last.kind = "ok" /\ last.out = cli.fmt)

\* C8 witness: a literal template of two lines, on a CPU that exists.
C8_Witness ==
  /\ FmtOk /\ cli.cmd.cat = "cpu" /\ TargetResolves
  /\ cli.fmt = <<"x", "\n", "usage">>
  /\ last.out = cli.fmt

C10_OneStringPerField ==
  (ListRan /\ cli.cmd.cat \in FieldCategories /\ TargetResolves) =>
    /\ last.kind = "ok"
    /\ Len(last.out) = Len(cli.cmd.queries)
    /\ \A i \in DOMAIN cli.cmd.queries : last.out[i] \in Renderings(cli.cmd.queries[i])

\* C10 witness: `total usage` on Memory gives the total, then the usage.
C10_Witness ==
  /\ ListRan /\ cli.cmd.cat = "memory" /\ cli.cmd.queries = <<"total", "usage">>
  /\ last.out = << <<"total@memory">>, <<"usage@memory">> >>


\* The field a spelling of the model names.
FieldOfSpelling(cat, v) ==
  IF v \in Token1Spellings(cat) THEN Token1(cat) ELSE Token2(cat)

\* C11: parsing a placeholder token is case-insensitive: every spelling of a
\* field token parses to that field, and a template whose placeholders are
\* several spellings of fields is formatted, each placeholder replaced by a
\* rendering of its field.
C11_CaseInsensitiveParsing ==
  /\ \A cat \in FieldCategories : \A v \in CaseVariants(cat) :
       QueryFromStr(cat, <<v>>) =
         [ok |-> TRUE, q |-> Query(cat, FieldOfSpelling(cat, v)), err |-> NoErr]
  /\ (FmtRan /\ TargetResolves /\ cli.cmd.cat \in FieldCategories
        /\ cli.fmt \in CaseTemplates(cli.cmd.cat)) =>
       /\ last.kind = "ok"
       /\ last.out = Concat([i \in DOMAIN PlaceholderTexts |->
                                last.ctx[PlaceholderTexts[i]]])
       /\ \A i \in DOMAIN PlaceholderTexts :
            last.ctx[PlaceholderTexts[i]] \in
              Renderings(FieldOfSpelling(cli.cmd.cat, PlaceholderTexts[i][1]))

\* C11 witness: `%MAC-AddREss%%mac-address%` on Network eth0 gives the
\* address twice.
C11_Witness ==
  /\ FmtOk /\ cli.cmd.cat = "network" /\ cli.cmd.name = "eth0"
  /\ cli.fmt = <<"%", "MAC-AddREss", "%", "%", "mac-address", "%">>
  /\ last.out = <<"mac-address@eth0", "mac-address@eth0">>


\* The events of the log that read a CPU usage or a field of a bound Cpu.
IsCpuRead(e) ==
  \/ e.ev = "cpu_usage"
  \/ (e.ev = "exec" /\ cli.cmd.cat = "cpu")

\* The two-phase refresh stands in the log at i, i + 1 and i + 2.
TwoPhaseAt(trace, i) ==
  /\ i + 2 <= Len(trace)
  /\ trace[i].ev = "refresh_cpu"
  /\ trace[i + 1].ev = "sleep_min_cpu_interval"
  /\ trace[i + 2].ev = "refresh_cpu"

\* C12: in one exec_cmd, every read of a CPU usage (total-cpu-usage of Os,
\* every field of Cpu) comes after a refresh, the sleep of the minimum
\* interval and a second refresh, which follow each other with nothing read
\* in between; every sleep stands between two refreshes.
C12_TwoPhaseRefreshBeforeUsage ==
  runs > 0 =>
    /\ \A r \in DOMAIN last.trace :
         IsCpuRead(last.trace[r]) =>
           \E i \in 1..(r - 3) : TwoPhaseAt(last.trace, i)
    /\ \A j \in DOMAIN last.trace :
         last.trace[j].ev = "sleep_min_cpu_interval" =>
           (j > 1 /\ TwoPhaseAt(last.trace, j - 1))

\* C12 witness: `%total-cpu-usage%x%name%` on Os, in a second run.
C12_Witness ==
  /\ FmtOk /\ runs = 2 /\ cli.cmd.cat = "os"
  /\ CountEv(last.trace, "cpu_usage") = 1
  /\ CountEv(last.trace, "sleep_min_cpu_interval") = 1


\* The event that acquires the list a category reads.
LoadEvent(cat) ==
  CASE cat = "drive" -> "load_drives"
    [] cat \in {"sensor", "list-sensors"} -> "load_sensors"
    [] cat \in {"network", "list-networks"} -> "load_networks"
    [] OTHER -> "none"

\* C13: every run that reads the drive, sensor or network list acquires it
\* during that run, with a template as with a field list: the log of each
\* successful exec_cmd of such a category holds the load of its list.
C13_FreshSnapshotEachRun ==
  (runs > 0 /\ last.kind = "ok" /\ LoadEvent(cli.cmd.cat) # "none"
     /\ (cli.cmd.cat \in NamedCategories \/ ~cli.has_fmt)) =>
    CountEv(last.trace, LoadEvent(cli.cmd.cat)) = 1


\* The entities of the provider that a List* category is about.
EntitiesOf(cat) ==
  CASE cat = "list-cpus" -> host.cpus
    [] cat = "list-sensors" -> host.components
    [] cat = "list-networks" -> host.networks

\* Queries a List* command can be handed.
SomeQueries ==
  {QueryNone, Query("os", "name"), Query("cpu", "usage"), Query("sensor", "max-temp")}

\* C14: executing a List* category returns one String per entity of its
\* kind, the names in the order of the provider's list, whatever the query
\* that exec is given.
C14_ListEnumeratesAll ==
  (ListRan /\ cli.cmd.cat \in ListCategories) =>
    /\ last.kind = "ok"
    /\ Len(last.out) = Len(EntitiesOf(cli.cmd.cat))
    /\ \A i \in DOMAIN last.out : last.out[i] = <<EntitiesOf(cli.cmd.cat)[i]>>
    /\ \A q \in SomeQueries :
         LET r == CommandExec(host, [app |-> NewApplication, trace |-> <<>>],
                              Bound(cli.cmd.cat, cli.cmd.cat, 0), q)
         IN  ~r.panic /\ r.out = last.out

\* C14 witness: list-sensors gives the two labels.
C14_Witness ==
  /\ ListRan /\ cli.cmd.cat = "list-sensors"
  /\ last.out = << <<"coretemp">>, <<"nvme">> >>


\* The command line without its field tokens.
CliWithoutQueries == [cli EXCEPT !.cmd.queries = <<>>]

\* C15: with a template, the field tokens of the command line are ignored:
\* the first exec_cmd returns, prints, computes and refreshes what it does
\* for the same category, target and template with no field token.
C15_TemplateIgnoresFieldList ==
  (FmtRan /\ runs = 1) =>
    LET r == ExecCmd(host, [app |-> NewApplication, trace |-> <<>>],
                     CliWithoutQueries)
    IN  /\ last.kind = r.res.kind
        /\ last.out = r.res.out
        /\ last.err = r.res.err
        /\ last.trace = r.res.st.trace
        /\ last.printed = r.printed
        /\ app = r.res.st.app

\* C15 witness: Memory with the field tokens `total total` and the example
\* template prints the usage and the total of the template.
C15_Witness ==
  /\ FmtOk /\ runs = 1 /\ cli.cmd.cat = "memory"
  /\ cli.cmd.queries = <<"total", "total">> /\ cli.fmt = ExampleTemplate
  /\ last.printed = <<"CPU: ", "usage@memory", "%", " Mem: ", "total@memory", "\n">>
  /\ CountEv(last.trace, "exec") = 2


\* C16: with run_times = n >= 1, exec_cmd is run at most n times and the
\* counter never exceeds n; when run returns Ok, exec_cmd has run exactly n
\* times (and the loop has counted to n).
C16_RunsExactlyN ==
  cli.run_times >= 1 =>
    /\ runs <= cli.run_times
    /\ cnt <= cli.run_times
    /\ pc = "done" => (runs = cli.run_times /\ last.kind = "ok")
    /\ (pc = "done" /\ cli.run_times # 1) => cnt = cli.run_times

\* C16 witness: run_times = 2 has returned Ok after two executions.
C16_Witness ==
  /\ pc = "done" /\ cli.run_times = 2 /\ runs = 2 /\ cnt = 2
  /\ Len(stdout) = 2 * Len(last.printed) /\ last.printed # <<>>

\* C17: with run_times = 0 run never returns Ok and its counter stays 0;
\* the loop always executes the command again, and after an execution that
\* succeeds it is back at the head of the loop.
C17_RunsWithoutEnd ==
  /\ [](cli.run_times = 0 => (pc # "done" /\ cnt = 0))
  /\ [](cli.run_times = 0 /\ pc = "loop"
          => <>(pc \in {"executed", "failed", "panicked"}))
  /\ [](cli.run_times = 0 /\ pc = "executed" => <>(pc = "loop"))

\* C17 witness: more than MaxRuns executions, the counter still 0.
C17_Witness ==
  /\ cli.run_times = 0 /\ runs = MaxRuns + 1 /\ pc = "executed" /\ cnt = 0

\* C18: with run_times = 1 there is no interval sleep, and with
\* run_times = n > 1 and an interval, run has slept n - 1 times when it
\* returns Ok.
C18_SleepsBetweenRuns ==
  pc = "done" =>
    /\ cli.run_times = 1 => sleeps = 0
    /\ (cli.run_times > 1 /\ cli.interval) => sleeps = cli.run_times - 1


\* C19: on a host that has no value for the optional fields, a command whose
\* target resolves does not fail for asking one: in a field list the field
\* yields exactly one String, the empty one, at its place; in a template its
\* placeholder is replaced by the empty String.
C19_UnavailableIsEmptyString ==
  (runs > 0 /\ ~host.optional /\ TargetResolves
     /\ cli.cmd.cat \in FieldCategories) =>
    /\ ListRan =>
         /\ last.kind = "ok"
         /\ Len(last.out) = Len(cli.cmd.queries)
         /\ \A i \in DOMAIN cli.cmd.queries :
              cli.cmd.queries[i] \in OptionalFields(cli.cmd.cat)
                => last.out[i] = <<>>
    /\ (FmtRan /\ AllTextsAreFields) =>
         /\ last.kind = "ok"
         /\ \A t \in Range(NonEmptyTexts) :
              ToLower(t[1]) \in OptionalFields(cli.cmd.cat) => last.ctx[t] = <<>>

\* C19 witness: `host-name total-cpu-usage` on Os gives the empty String
\* and the usage.
C19_Witness ==
  /\ ListRan /\ ~host.optional /\ cli.cmd.cat = "os"
  /\ cli.cmd.queries = <<"host-name", "total-cpu-usage">>
  /\ last.out = << <<>>, <<"12.34">> >>
  /\ last.printed = <<",", "12.34", "\n">>


\* The provider reports the same values at every sample.
SameSnapshot == Len(host.usage) = 1

RECURSIVE Repeat(_, _)
Repeat(s, n) == IF n = 0 THEN <<>> ELSE s \o Repeat(s, n - 1)

Joined(data, d) ==
  Concat([i \in DOMAIN data |-> data[i] \o (IF i < Len(data) THEN <<d>> ELSE <<"\n">>)])

Occurrences(s, x) == Cardinality({ i \in DOMAIN s : s[i] = x })

\* C21: without a template, the n Strings the field list yields are printed
\* joined by the unescaped delimiter: n - 1 delimiters, one between each two
\* consecutive Strings, none after the last, which a line feed follows; for
\* n = 0 nothing is printed, and `len - 1` does not overflow.
C21_JoinedByDelimiter ==
  ListRan =>
    /\ last.kind # "panic"
    /\ last.kind = "ok" =>
         LET n == Len(last.out)
             d == Unescape(cli.delimiter).s
         IN  /\ last.printed = Joined(last.out, d)
             /\ n = 0 => last.printed = <<>>
             /\ n > 0 =>
                  /\ last.printed[Len(last.printed)] = "\n"
                  /\ Occurrences(last.printed, d)
                       = n - 1 + (IF d = "\n" THEN 1 ELSE 0)

\* C21 witness: two Strings printed with the delimiter `\n` unescaped to a
\* line feed between them.
C21_Witness ==
  /\ ListRan /\ last.kind = "ok" /\ cli.delimiter = "\\n"
  /\ Len(last.out) = 2
  /\ last.printed = last.out[1] \o <<"\n">> \o last.out[2] \o <<"\n">>


\* The exponent n and the base of the factor of a unit: 1000^n for the SI
\* units, 1024^n for the IEC units.
Exponent(unit) ==
  CASE unit \in {"kb", "kib"} -> 1 [] unit \in {"mb", "mib"} -> 2
    [] unit \in {"gb", "gib"} -> 3 [] unit \in {"tb", "tib"} -> 4
FactorOf(unit) ==
  CASE unit = "bits" -> [num |-> Natural(1), den |-> 8]
    [] unit = "bytes" -> [num |-> Natural(1), den |-> 1]
    [] unit \in {"kb", "mb", "gb", "tb"} -> [num |-> Pow(1000, Exponent(unit)), den |-> 1]
    [] unit \in {"kib", "mib", "gib", "tib"} -> [num |-> Pow(1024, Exponent(unit)), den |-> 1]

\* The f64 that a byte count divided by the factor of the unit is.
Converted(bytes, unit) ==
  CASE unit = "bits" -> [num |-> Mul(bytes, 8), den |-> Natural(1)]
    [] unit = "bytes" -> [num |-> bytes, den |-> Natural(1)]
    [] OTHER -> F64Div(bytes, FactorOf(unit).num)

\* The byte counts DriveCommand::exec converts: the three of the disk, as f64.
ByteCounts(d) == { AsF64(d.total), AsF64(d.available), AsF64(UsedSpace(d).v) }

FromBytesEvents == { i \in DOMAIN last.trace : last.trace[i].ev = "from_bytes" }

\* C22: DataValue::from_bytes divides the byte count by the factor of the
\* unit: 1000^n for kb, mb, gb, tb and 1024^n for kib, mib, gib, tib
\* (n = 1..4), 1 for bytes, 1/8 for bits, whose value is 8 times the byte
\* count.
C22_FromBytesDividesByFactor ==
  (runs > 0 /\ cli.cmd.cat = "drive") =>
    /\ Factor(cli.cmd.data_unit) = FactorOf(cli.cmd.data_unit)
    /\ \A i \in FromBytesEvents :
         \E b \in ByteCounts(host.space[cli.cmd.name]) :
           /\ last.trace[i].arg[1] = Digits(b)
           /\ \E c \in {Converted(b, cli.cmd.data_unit)} :
                last.trace[i].arg =
                  <<Digits(b), cli.cmd.data_unit, Digits(c.num), Digits(c.den)>>

\* C22 witness: 500107862016 bytes are 465.76 GiB.
C22_Witness ==
  /\ ListRan /\ cli.cmd.data_unit = "gib" /\ cli.cmd.queries = <<"total">>
  /\ FromBytesEvents # {}
  /\ last.out = << <<"465.76">> >>

\* C23: the substitution pass of format_string never panics: when
\* create_fmt_ctx has returned a context, every placeholder text that the
\* replacement captures, the empty one included, is a key of it, and every
\* executed query has yielded a String to insert.
C23_LookupNeverFails ==
  FmtRan =>
    /\ last.kind # "panic"
    /\ last.kind = "ok" =>
         \A i \in DOMAIN Specs(cli.fmt) : Specs(cli.fmt)[i] \in DOMAIN last.ctx

\* C23 witness: an empty placeholder and two spellings of one field, each a
\* key of the context.
C23_Witness ==
  /\ FmtOk /\ cli.cmd.cat = "memory"
  /\ cli.fmt = <<"%", "%", "%", "usage", "%", "%", "USAGE", "%">>
  /\ DOMAIN last.ctx = {<<>>, <<"usage">>, <<"USAGE">>}

\* The value inserted under text t by the last insert of the run: the event
\* after the last "insert" of t holds it.
LastInsert(t) ==
  Greatest({ i \in DOMAIN last.trace :
               last.trace[i].ev = "insert" /\ last.trace[i].arg = t })
LastValue(t) == last.trace[LastInsert(t) + 1].arg

\* The values computed for text t in the run, in order.
ValuesOf(t) ==
  [k \in 1..CountEvArg(last.trace, "insert", t) |->
     last.trace[(CHOOSE i \in DOMAIN last.trace :
                   /\ last.trace[i].ev = "insert" /\ last.trace[i].arg = t
                   /\ CountEvArg(SubSeq(last.trace, 1, i), "insert", t) = k) + 1].arg]

\* C24: in one formatted output every occurrence of a placeholder text is
\* replaced by the same String, the one the context holds for the text, and
\* for a non-empty text that is the value of the last computation of the
\* run for that text.
C24_SameTextSameString ==
  FmtOk =>
    /\ last.out = ScanRender(cli.fmt, 1, FALSE, <<>>, last.ctx, TRUE)
    /\ \A t \in DOMAIN last.ctx \ {<<>>} :
         /\ last.trace[LastInsert(t) + 1].ev = "value"
         /\ last.ctx[t] = LastValue(t)

\* C24 witness: the CPU usage computed twice for one text, with two values;
\* both occurrences show the second.
C24_Witness ==
  /\ FmtOk /\ cli.cmd.cat = "os"
  /\ cli.fmt = <<"%", "total-cpu-usage", "%", "x", "%", "total-cpu-usage", "%">>
  /\ Len(ValuesOf(<<"total-cpu-usage">>)) = 2
  /\ ValuesOf(<<"total-cpu-usage">>)[1] # ValuesOf(<<"total-cpu-usage">>)[2]
  /\ last.out = ValuesOf(<<"total-cpu-usage">>)[2] \o <<"x">>
                  \o ValuesOf(<<"total-cpu-usage">>)[2]

\* The events of the last run that are no parse of a specifier: a refresh,
\* a sleep, a load, a lookup of the target, an execution, an insert.
AfterParse == { i \in DOMAIN last.trace : last.trace[i].ev # "parse" }

\* C25: format_string parses every non-empty placeholder text into a Query
\* before it resolves the target and before any refresh or sleep: the
\* parses come first in the run, nothing else happens before the last text
\* is parsed, and a text that is no field ends the run with the error of
\* that text, without refresh, sleep or lookup, whether the target exists
\* or not.
C25_ParseBeforeBind ==
  FmtRan =>
    /\ \A i \in DOMAIN last.trace : \A j \in AfterParse :
         last.trace[i].ev = "parse" => i < j
    /\ AfterParse # {} => CountEv(last.trace, "parse") = Len(NonEmptyTexts)
    /\ ~AllTextsAreFields =>
         /\ AfterParse = {}
         /\ last.kind = "err"
         /\ last.err.kind \in {"InvalidQuery", "NoArguments"}
    /\ (AllTextsAreFields /\ cli.cmd.cat \in NamedCategories) =>
         CountEv(last.trace, "find") = 1

\* C25 witness: an unknown text after a known one, for a CPU the host has
\* not: the error is the one of the text, and nothing but parses happened.
C25_Witness ==
  /\ FmtRan /\ cli.cmd.cat = "cpu" /\ ~TargetResolves
  /\ cli.fmt = <<"%", "usage", "%", "%", "bogus", "%">>
  /\ last.kind = "err" /\ last.err.kind = "InvalidQuery"
  /\ CountEv(last.trace, "parse") = 2 /\ AfterParse = {}

\* The fields handed to Command::exec in the last run.
ExecutedFields ==
  { last.trace[i].arg[1] : i \in { j \in DOMAIN last.trace : last.trace[j].ev = "exec" } }

\* C26: every Query handed to Command::exec is Query::None or of the
\* category of the command: no run, of a field list or of a template,
\* reaches unreachable!(), and every field executed is a field of the
\* category of the command line.
C26_UnreachableNotReached ==
  runs > 0 =>
    /\ CountEv(last.trace, "unreachable") = 0
    /\ ExecutedFields \subseteq Fields(cli.cmd.cat)

\* C26 witness: a field list of a CPU, both fields executed by its command.
C26_Witness ==
  /\ ListRan /\ last.kind = "ok" /\ cli.cmd.cat = "cpu"
  /\ cli.cmd.queries = <<"usage", "brand">>
  /\ ExecutedFields = {"usage", "brand"}

RECURSIVE PercentsOf(_, _)
\* The percent signs in the values of the placeholder texts.
PercentsOf(texts, ctx) ==
  IF texts = <<>> THEN 0
  ELSE Occurrences(ctx[Head(texts)], "%") + PercentsOf(Tail(texts), ctx)

\* The texts parsed or inserted in the last run.
HandledTexts ==
  { last.trace[i].arg : i \in { j \in DOMAIN last.trace :
                                  last.trace[j].ev \in {"parse", "insert"} } }

\* C27: substitution is one pass over the original template: the result is
\* the template with each of its own placeholders replaced, a value that
\* holds percent signs stands in it as it is (the percent signs of the
\* result are those of the values and the unpaired ones of the template),
\* and only the placeholder texts of the template are parsed and computed.
C27_SinglePassOverTemplate ==
  FmtOk =>
    /\ last.out = ScanRender(cli.fmt, 1, FALSE, <<>>, last.ctx, TRUE)
    /\ Occurrences(last.out, "%")
         = Occurrences(cli.fmt, "%") - 2 * Len(PlaceholderTexts)
             + PercentsOf(PlaceholderTexts, last.ctx)
    /\ HandledTexts = Range(NonEmptyTexts)

\* C27 witness: the mount point `/mnt/%usage%` before `usage%total%`: the
\* value keeps its percent signs, `usage` stays text and `%total%` is the
\* placeholder.
C27_Witness ==
  /\ FmtOk /\ cli.cmd.cat = "drive" /\ cli.cmd.name = "sdb1"
  /\ cli.fmt = <<"%", "mount-point", "%", "usage", "%", "total", "%">>
  /\ last.out = <<"/mnt/", "%", "usage", "%", "usage", "2000398934016">>

\* The disk the Drive command of the command line is bound to.
BoundDisk == host.space[cli.cmd.name]

\* More available than there is in total.
Underflows == Less(BoundDisk.total, BoundDisk.available)

\* total - available of u64 as the build computes it: the difference, or
\* 2^64 less what is missing when the difference is below zero.
WrappedDifference ==
  IF Underflows
    THEN Sub(TwoTo64, Sub(BoundDisk.available, BoundDisk.total))
    ELSE Sub(BoundDisk.total, BoundDisk.available)

\* What the subtraction leaves in the trace.
SubtractionOutcome ==
  IF Underflows /\ host.overflow_checks THEN <<"overflow">>
  ELSE <<Digits(WrappedDifference)>>

\* The executions of a field by the Drive command in the last run.
DriveExecEvents == { i \in DOMAIN last.trace : last.trace[i].ev = "exec" }

\* C28: DriveCommand::exec subtracts available from total in u64 before it
\* dispatches on the field, for every field: each execution of a field is
\* followed at once by the subtraction; when available <= total its result
\* is total - available and that is what `usage` converts; when available
\* > total the run panics in a build with overflow checks and goes on with
\* the difference modulo 2^64 in one without, whatever the field is.
C28_UsedSpaceBeforeDispatch ==
  (runs > 0 /\ cli.cmd.cat = "drive") =>
    /\ \A i \in DriveExecEvents :
         /\ i < Len(last.trace)
         /\ last.trace[i + 1].ev = "used_space"
         /\ last.trace[i + 1].arg = SubtractionOutcome
         /\ (last.trace[i].arg = <<"usage">> /\ SubtractionOutcome # <<"overflow">>) =>
              /\ i + 1 < Len(last.trace)
              /\ last.trace[i + 2].ev = "from_bytes"
              /\ last.trace[i + 2].arg[1] = Digits(AsF64(WrappedDifference))
    /\ CountEv(last.trace, "used_space") = Cardinality(DriveExecEvents)
    /\ (DriveExecEvents # {} /\ Underflows /\ host.overflow_checks) =>
         /\ last.kind = "panic"
         /\ Cardinality(DriveExecEvents) = 1
    /\ (DriveExecEvents # {} /\ ~(Underflows /\ host.overflow_checks)) =>
         last.kind = "ok"

\* C28 witness: the file system is asked of a disk that reports one byte
\* more available than in total, in a build with overflow checks: the run
\* panics in the subtraction.
C28_Witness ==
  /\ ListRan /\ cli.cmd.cat = "drive" /\ cli.cmd.queries = <<"fs">>
  /\ Underflows /\ host.overflow_checks
  /\ last.kind = "panic"
  /\ last.trace[Len(last.trace)] = [ev |-> "used_space", arg |-> <<"overflow">>]

\* C28 witness of the other build: the kind is asked of the same disk and
\* printed, after a subtraction that wrapped to 2^64 - 1.
C28_WrapReached ==
  /\ ListRan /\ cli.cmd.cat = "drive" /\ cli.cmd.queries = <<"kind">>
  /\ Underflows /\ ~host.overflow_checks
  /\ last.kind = "ok"
  /\ CountEvArg(last.trace, "used_space", <<"18446744073709551615">>) = 1

=============================================================================
